---- MODULE Spec2Model ----
(***************************************************************************)
(* loki-sink: a logging sink that enriches log records with the contents   *)
(* of a process-wide property bag, buffers them and ships them in batches  *)
(* to Grafana Loki.                                                        *)
(*                                                                         *)
(* The repository holds two implementations of the sink:                   *)
(*   src/src/sink.rs  LokiSink with BATCH_LIMIT, lock dropped before send  *)
(*   src/src/lib.rs   LokiSink with the "ureq" target filter, whole-buffer *)
(*                    drain, lock held across the send                     *)
(* and the property bag (src/src/property_bag.rs, src/src/label_stack.rs,  *)
(* src/src/lib.rs: three copies of the same code).                         *)
(*                                                                         *)
(* Spec     models sink.rs,  SpecLib models lib.rs,  SpecBag models the    *)
(* property bag under arbitrary pushes, guard drops and snapshots.         *)
(***************************************************************************)
EXTENDS Integers, Sequences, FiniteSets, TLC

VARIABLES
    batch_limit, \* BATCH_LIMIT / BUFFER_FLUSH_LIMIT of the run
    props,      \* PropertyBag.props: HashMap<String, serde_json::Value>
    buffer,     \* LokiSink.buffer: the Vec inside the RwLock
    lock,       \* LokiSink.buffer: the RwLock's state (writer, readers, poisoned)
    stack,      \* per thread: the call stack of log()/flush() frames
    clock,      \* SystemTime::now(): a logical clock, one tick per read
    sent,       \* every ureq::post(..).send_json(payload) completed so far, with its result
    ret,        \* per thread: how its last flush() returned (observation only)
    nlog,       \* per thread: log() calls made from the application (observation only)
    nested,     \* log() calls re-entered from the transport during a send (observation only)
    nflush,     \* flush() calls made from outside log() (timer or explicit) (observation only)
    guards,     \* the live guards of the application's pushes
    history,    \* the pushes, panics and drops of the application so far, and how
                \* its last push returned: a guard, or a panic (observation only)
    snap        \* the last as_json() of the application, with the history it was taken after

vars == <<batch_limit, props, buffer, lock, stack, clock, sent, ret, nlog, nested, nflush, guards, history, snap>>

sinkVars == <<buffer, lock, stack, clock, sent, ret, nlog, nested, nflush>>
bagVars  == <<guards, history, snap>>

----------------------------------------------------------------------------
(* Bounds of the model *)

\* BATCH_LIMIT (sink.rs 11) and BUFFER_FLUSH_LIMIT (lib.rs 15) are 1000 in
\* the source.  The model runs the same code with the limits of Limits; a
\* run makes at most one log() call more than its limit, and the larger
\* limit is run without flush() calls from outside log().
ScaledLimit == 1
\* flush() calls from outside log() in one run
MaxFlushCalls == 1
\* frames on one thread's stack: log -> flush -> log (re-entered) -> flush ...
MaxDepth == 3
\* pushes in one run of SpecBag
MaxPushes == 3

Limits == {ScaledLimit, ScaledLimit + 2}
BATCH_LIMIT == batch_limit
BUFFER_FLUSH_LIMIT == batch_limit
MaxLogs == batch_limit + 1
FlushBudget == IF batch_limit = ScaledLimit THEN MaxFlushCalls ELSE 0

Producers == {"p1", "p2"}
Timer     == "timer"
Threads   == Producers \cup {Timer}

----------------------------------------------------------------------------
(* Strings: a target is a sequence of characters, so that contains() is    *)
(* computed.                                                               *)

Contains(s, pat) ==
    \E i \in 0..(Len(s) - Len(pat)) : SubSeq(s, i + 1, i + Len(pat)) = pat

Ureq == <<"u", "r", "e", "q">>

Digit == <<"0", "1", "2", "3", "4", "5", "6", "7", "8", "9">>

\* u128::to_string / u32's JSON text: decimal digits, most significant first
RECURSIVE ToDecimal(_)
ToDecimal(n) ==
    IF n < 10 THEN <<Digit[n + 1]>>
    ELSE ToDecimal(n \div 10) \o <<Digit[(n % 10) + 1]>>

\* Level::to_string().to_ascii_lowercase()
ToAsciiLowercase(s) ==
    CASE s = "ERROR" -> "error"
      [] s = "WARN"  -> "warn"
      [] s = "INFO"  -> "info"
      [] s = "DEBUG" -> "debug"
      [] s = "TRACE" -> "trace"
      [] OTHER       -> s

----------------------------------------------------------------------------
(* Log records handed to log() *)

\* the characters of the target strings used here
Chars(s) ==
    CASE s = "app"        -> <<"a", "p", "p">>
      [] s = "ureq::unit" -> <<"u", "r", "e", "q", ":", ":", "u", "n", "i", "t">>
      [] s = "rustls::conn" -> <<"r", "u", "s", "t", "l", "s", ":", ":", "c", "o", "n", "n">>
      [] OTHER            -> <<>>

\* a record of the application
RecApp ==
    [args |-> "started", line |-> [some |-> [u32 |-> 10]], target |-> "app",
     file |-> [some |-> [str |-> "main.rs"]], level |-> "INFO"]

\* a record of the HTTP transport, ureq
RecUreq ==
    [args |-> "sending", line |-> [some |-> [u32 |-> 27]], target |-> "ureq::unit",
     file |-> [none |-> TRUE], level |-> "DEBUG"]

\* a record of a dependency of the transport
RecTls ==
    [args |-> "handshake", line |-> [none |-> TRUE], target |-> "rustls::conn",
     file |-> [none |-> TRUE], level |-> "TRACE"]

\* what the application logs, and what the transport logs during a send
AppRecords == {RecApp}
TransportRecords == {RecUreq, RecTls}
Records == AppRecords \cup TransportRecords

NoRec == [norec |-> TRUE]

----------------------------------------------------------------------------
(* serde_json *)

\* serde_json::to_value for the types pushed here: &str/String, u32,
\* Option<_>, and a map keyed by non-strings, which serde_json refuses
RECURSIVE ToValue(_)
ToValue(obj) ==
    CASE "str" \in DOMAIN obj   -> [ok |-> TRUE, String |-> obj.str]
      [] "u32" \in DOMAIN obj   -> [ok |-> TRUE, Number |-> obj.u32]
      [] "none" \in DOMAIN obj  -> [ok |-> TRUE, Null |-> TRUE]
      [] "some" \in DOMAIN obj  -> ToValue(obj.some)
      [] OTHER                  -> [ok |-> FALSE, Err |-> "key must be a string"]

\* serde_json::to_string of one Value: its JSON text, as a sequence of tokens
JsonText(v) ==
    CASE "String" \in DOMAIN v -> <<"\"", v.String, "\"">>
      [] "Number" \in DOMAIN v -> ToDecimal(v.Number)
      [] OTHER                 -> <<"null">>

----------------------------------------------------------------------------
(* PropertyBag *)

\* BagInsert with a plausible bug: the map is replaced, not extended
BagInsertAlone(map, name, value) ==
    [k \in {name} |-> value]

\* HashMap::insert under props.write()
BagInsert(map, name, value) ==
    [k \in (DOMAIN map) \cup {name} |-> IF k = name THEN value ELSE map[k]]

\* BagRemove with a plausible bug: the entry is kept while another guard
\* for the same name is live (a stack of values per name)
BagRemoveShadowed(map, name) ==
    IF Cardinality({g \in 1..Len(guards) : guards[g].key = name}) > 1
    THEN map
    ELSE [k \in (DOMAIN map) \ {name} |-> map[k]]

\* HashMap::remove under props.write()
BagRemove(map, name) ==
    [k \in (DOMAIN map) \ {name} |-> map[k]]

\* PropertyBag::as_json: the JSON object text of a clone of the map taken
\* under props.read(); the members of the object, in no order
as_json(map) ==
    {<<k, JsonText(map[k])>> : k \in DOMAIN map}

EmptyMap == [k \in {} |-> NoRec]

\* the standard properties of log(), in the order they are pushed
StdNames == <<"Message", "LineNumber", "Target", "File", "level">>

\* the object log() pushes under StdNames[i] for a record
StdObject(rec, i) ==
    CASE i = 1 -> [str |-> rec.args]
      [] i = 2 -> rec.line
      [] i = 3 -> [str |-> rec.target]
      [] i = 4 -> rec.file
      [] OTHER -> [str |-> ToAsciiLowercase(rec.level)]

----------------------------------------------------------------------------
(* PropertyBag used by the application: push, the guard's drop, as_json    *)

BagNames == {"CorrelationId", "User", "level"}

\* objects handed to push: a &str, a u32, an Option, and a map keyed by
\* tuples, which serde_json cannot represent
BagObjects == {[str |-> "abc"], [u32 |-> 30], [none |-> TRUE], [tuplekeys |-> TRUE]}

NoHistory ==
    [pushes |-> <<>>, panics |-> 0, drops |-> 0,
     last |-> [name |-> "-", object |-> [none |-> TRUE], result |-> "-"]]
NoSnap == [taken |-> FALSE]

\* property_bag.rs 30-38 (label_stack.rs 30-38, lib.rs 62-70):
\* to_value(object).unwrap() panics on Err before the map is touched;
\* otherwise the entry is inserted and a guard for the name returned
push(name, object) ==
    /\ Len(history.pushes) + history.panics < MaxPushes
    /\ LET t == ToValue(object) IN
         IF t.ok
         THEN /\ props' = BagInsert(props, name, t)
              /\ guards' = Append(guards, [key |-> name])
              /\ history' = [history EXCEPT
                   !.pushes = Append(@, [name |-> name, object |-> object]),
                   !.last = [name |-> name, object |-> object, result |-> "guard"]]
         ELSE /\ history' = [history EXCEPT
                   !.panics = @ + 1,
                   !.last = [name |-> name, object |-> object, result |-> "panic"]]
              /\ UNCHANGED <<props, guards>>
    /\ UNCHANGED <<batch_limit, buffer, lock, stack, clock, sent, ret, nlog, nested, nflush, snap>>

\* property_bag.rs 53-57 (label_stack.rs 53-57, lib.rs 80-84): the guard
\* at position g goes out of scope
drop(g) ==
    /\ g \in 1..Len(guards)
    /\ props' = BagRemove(props, guards[g].key)
    /\ guards' = SubSeq(guards, 1, g - 1) \o SubSeq(guards, g + 1, Len(guards))
    /\ history' = [history EXCEPT !.drops = @ + 1]
    /\ UNCHANGED <<batch_limit, buffer, lock, stack, clock, sent, ret, nlog, nested, nflush, snap>>

\* property_bag.rs 41-43: as_json called by the application
Snapshot ==
    /\ snap' = [taken |-> TRUE, json |-> as_json(props), after |-> history]
    /\ snap' # snap
    /\ UNCHANGED <<batch_limit, props, buffer, lock, stack, clock, sent, ret, nlog, nested,
                   nflush, guards, history>>

----------------------------------------------------------------------------
(* The buffer's RwLock and the call stacks *)

Unlocked == [writer |-> "none", readers |-> {}, poisoned |-> FALSE]

\* RwLock::write can be granted
CanWrite == lock.writer = "none" /\ lock.readers = {}
\* RwLock::read can be granted
CanRead == lock.writer = "none"

\* LokiSink.labels: the global labels, fixed at construction
Labels == [k \in {"Application"} |-> "ExampleConsoleApp"]

\* struct LokiStream, with the record it was made from (observation only)
LokiStream(f) ==
    [stream |-> Labels, values |-> <<f.time, f.json>>, rec |-> f.rec]

LogFrame(rec, time) ==
    [op |-> "log", pc |-> "as_json", rec |-> rec, time |-> time,
     json |-> {}, payload |-> <<>>]

FlushFrame ==
    [op |-> "flush", pc |-> "try_write", rec |-> NoRec, time |-> <<>>,
     json |-> {}, payload |-> <<>>]

Depth(t) == Len(stack[t])
\* no log() or flush() call is in progress
Quiescent == \A t \in Threads : Depth(t) = 0
Top(t)   == stack[t][Depth(t)]
Running(t, op, pc) == Depth(t) > 0 /\ Top(t).op = op /\ Top(t).pc = pc

SetTop(t, f)  == [stack EXCEPT ![t] = [@ EXCEPT ![Len(@)] = f]]
Return(t)     == [stack EXCEPT ![t] = SubSeq(@, 1, Len(@) - 1)]
Call(st, t, f) == [st EXCEPT ![t] = Append(@, f)]

\* log() can be entered on t: from the application on an idle producer
\* thread, or from the transport while t is inside send_json
RECURSIVE Sum(_, _)
Sum(f, S) == IF S = {} THEN 0 ELSE LET x == CHOOSE y \in S : TRUE IN f[x] + Sum(f, S \ {x})

\* log() calls made so far
Calls == nested + Sum(nlog, Threads)

CanEnterLog(t, rec) ==
    /\ Calls < MaxLogs
    /\ \/ t \in Producers /\ Depth(t) = 0 /\ rec \in AppRecords
       \/ Running(t, "flush", "send") /\ Depth(t) < MaxDepth /\ rec \in TransportRecords

\* the call is counted
Count(t) ==
    IF Depth(t) = 0
    THEN nlog' = [nlog EXCEPT ![t] = @ + 1] /\ UNCHANGED nested
    ELSE nested' = nested + 1 /\ UNCHANGED nlog

\* SystemTime::now()...as_nanos().to_string(), and the frame of the call
EnterLog(t, rec) ==
    /\ clock' = clock + 1
    /\ stack' = Call(stack, t, LogFrame(rec, ToDecimal(clock + 1)))
    /\ Count(t)

----------------------------------------------------------------------------
(* sink.rs: LokiSink::log *)

\* PropertyBag::push of the five standard properties, in order
RECURSIVE PushStd(_, _, _)
PushStd(map, rec, i) ==
    IF i > Len(StdNames) THEN map
    ELSE PushStd(BagInsert(map, StdNames[i], ToValue(StdObject(rec, i))), rec, i + 1)

\* the five guards dropped, in reverse order of declaration
RECURSIVE DropStd(_, _)
DropStd(map, i) ==
    IF i = 0 THEN map ELSE DropStd(BagRemove(map, StdNames[i]), i - 1)

\* sink.rs 92-105: enabled() is true for every record; time, message, and
\* the five prop!() pushes.  No branch of log() or flush() reads the bag, so
\* the pushes of one call are taken as one step.
Log(t, rec) ==
    /\ CanEnterLog(t, rec)
    /\ EnterLog(t, rec)
    /\ props' = PushStd(props, rec, 1)
    /\ UNCHANGED <<batch_limit, buffer, lock, sent, ret, nflush, guards, history, snap>>

\* sink.rs 107-113: the snapshot and the stream built from it
LogAsJson(t) ==
    /\ Running(t, "log", "as_json")
    /\ stack' = SetTop(t, [Top(t) EXCEPT !.json = as_json(props), !.pc = "write"])
    /\ UNCHANGED <<batch_limit, props, buffer, lock, clock, sent, ret, nlog, nested, nflush, guards, history, snap>>

\* sink.rs 115: self.buffer.write() is granted
LogWrite(t) ==
    /\ Running(t, "log", "write")
    /\ CanWrite
    /\ lock' = [lock EXCEPT !.writer = t]
    /\ stack' = SetTop(t, [Top(t) EXCEPT !.pc = "append"])
    /\ UNCHANGED <<batch_limit, props, buffer, clock, sent, ret, nlog, nested, nflush, guards, history, snap>>

\* sink.rs 115: push(req), and the write guard dropped at the end of the statement
LogAppend(t) ==
    /\ Running(t, "log", "append")
    /\ buffer' = Append(buffer, LokiStream(Top(t)))
    /\ lock' = [lock EXCEPT !.writer = "none"]
    /\ stack' = SetTop(t, [Top(t) EXCEPT !.pc = "read"])
    /\ UNCHANGED <<batch_limit, props, clock, sent, ret, nlog, nested, nflush, guards, history, snap>>

\* sink.rs 118: self.buffer.read() is granted
LogRead(t) ==
    /\ Running(t, "log", "read")
    /\ CanRead
    /\ lock' = [lock EXCEPT !.readers = @ \cup {t}]
    /\ stack' = SetTop(t, [Top(t) EXCEPT !.pc = "len"])
    /\ UNCHANGED <<batch_limit, props, buffer, clock, sent, ret, nlog, nested, nflush, guards, history, snap>>

\* LogLen with a plausible bug: > where the code has >=
LogLenGreater(t) ==
    /\ Running(t, "log", "len")
    /\ lock' = [lock EXCEPT !.readers = @ \ {t}]
    /\ LET g == [Top(t) EXCEPT !.pc = "drop"] IN
         IF Len(buffer) > BATCH_LIMIT
         THEN stack' = Call(SetTop(t, g), t, FlushFrame)
         ELSE stack' = SetTop(t, g)
    /\ UNCHANGED <<batch_limit, props, buffer, clock, sent, ret, nlog, nested, nflush, guards, history, snap>>

\* LogLen with a plausible bug: the threshold is one too low
LogLenEarly(t) ==
    /\ Running(t, "log", "len")
    /\ lock' = [lock EXCEPT !.readers = @ \ {t}]
    /\ LET g == [Top(t) EXCEPT !.pc = "drop"] IN
         IF Len(buffer) + 1 >= BATCH_LIMIT
         THEN stack' = Call(SetTop(t, g), t, FlushFrame)
         ELSE stack' = SetTop(t, g)
    /\ UNCHANGED <<batch_limit, props, buffer, clock, sent, ret, nlog, nested, nflush, guards, history, snap>>

\* sink.rs 118-120: len() >= BATCH_LIMIT, the read guard dropped at the end
\* of the condition, and the call of flush(); the guards of the standard
\* properties stay live until log() returns
LogLen(t) ==
    /\ Running(t, "log", "len")
    /\ lock' = [lock EXCEPT !.readers = @ \ {t}]
    /\ LET g == [Top(t) EXCEPT !.pc = "drop"] IN
         IF Len(buffer) >= BATCH_LIMIT
         THEN stack' = Call(SetTop(t, g), t, FlushFrame)
         ELSE stack' = SetTop(t, g)
    /\ UNCHANGED <<batch_limit, props, buffer, clock, sent, ret, nlog, nested, nflush, guards, history, snap>>

\* LogDrop with a plausible bug: the buffered lines are views of the store,
\* not copies, and follow it when the guards drop
LogDropAliased(t) ==
    /\ Running(t, "log", "drop")
    /\ props' = DropStd(props, Len(StdNames))
    /\ buffer' = [i \in DOMAIN buffer |->
                     [buffer[i] EXCEPT !.values = <<@[1], as_json(props')>>]]
    /\ stack' = Return(t)
    /\ UNCHANGED <<batch_limit, lock, clock, sent, ret, nlog, nested, nflush, guards, history, snap>>

\* LogDrop with a plausible bug: the guard of the last property outlives
\* the call (it is leaked, where the code lets it drop)
LogDropLeaky(t) ==
    /\ Running(t, "log", "drop")
    /\ props' = DropStd(props, Len(StdNames) - 1)
    /\ stack' = Return(t)
    /\ UNCHANGED <<batch_limit, buffer, lock, clock, sent, ret, nlog, nested, nflush, guards, history, snap>>

\* sink.rs 121: the guards drop (property_bag.rs 53-57) and log() returns
LogDrop(t) ==
    /\ Running(t, "log", "drop")
    /\ props' = DropStd(props, Len(StdNames))
    /\ stack' = Return(t)
    /\ UNCHANGED <<batch_limit, buffer, lock, clock, sent, ret, nlog, nested, nflush, guards, history, snap>>

----------------------------------------------------------------------------
(* sink.rs: LokiSink::flush *)

\* flush() called from outside log(): the periodic driver, or an explicit
\* log::logger().flush()
Flush(t) ==
    /\ t = Timer
    /\ Depth(t) = 0
    /\ nflush < FlushBudget
    /\ nflush' = nflush + 1
    /\ stack' = Call(stack, t, FlushFrame)
    /\ UNCHANGED <<batch_limit, props, buffer, lock, clock, sent, ret, nlog, nested, guards, history, snap>>

\* FlushTryWrite with a plausible bug: write() where the code has
\* try_write(), so that flush() waits for the lock
FlushWriteBlocking(t) ==
    /\ Running(t, "flush", "try_write")
    /\ CanWrite
    /\ lock' = [lock EXCEPT !.writer = t]
    /\ stack' = SetTop(t, [Top(t) EXCEPT !.pc = "drain"])
    /\ UNCHANGED <<batch_limit, props, buffer, clock, sent, ret, nlog, nested, nflush, guards, history, snap>>

\* FlushTryWrite with a plausible bug: the result of try_write is not
\* looked at, and the flush goes on to drain
FlushTryWriteUnchecked(t) ==
    /\ Running(t, "flush", "try_write")
    /\ lock' = [lock EXCEPT !.writer = t]
    /\ stack' = SetTop(t, [Top(t) EXCEPT !.pc = "drain"])
    /\ UNCHANGED <<batch_limit, props, buffer, clock, sent, ret, nlog, nested, nflush, guards, history, snap>>

\* sink.rs 124-128: try_write; on Err the flush returns
FlushTryWrite(t) ==
    /\ Running(t, "flush", "try_write")
    /\ IF CanWrite
       THEN /\ lock' = [lock EXCEPT !.writer = t]
            /\ stack' = SetTop(t, [Top(t) EXCEPT !.pc = "drain"])
            /\ UNCHANGED ret
       ELSE /\ stack' = Return(t)
            /\ ret' = [ret EXCEPT ![t] = "WouldBlock"]
            /\ UNCHANGED lock
    /\ UNCHANGED <<batch_limit, props, buffer, clock, sent, nlog, nested, nflush, guards, history, snap>>

Min(a, b) == IF a < b THEN a ELSE b
Max(a, b) == IF a > b THEN a ELSE b
\* usize::clamp
Clamp(x, lo, hi) == Max(lo, Min(x, hi))

\* FlushDrain with a plausible bug: the batch is copied out of the buffer,
\* not moved (a clone of the front where the code has drain)
FlushDrainCopy(t) ==
    /\ Running(t, "flush", "drain")
    /\ LET batch_size == Clamp(Len(buffer), 0, BATCH_LIMIT) IN
         IF batch_size = 0
         THEN /\ stack' = Return(t)
              /\ ret' = [ret EXCEPT ![t] = "empty"]
         ELSE /\ stack' = SetTop(t, [Top(t) EXCEPT
                              !.payload = SubSeq(buffer, 1, batch_size),
                              !.pc = "send"])
              /\ UNCHANGED ret
    /\ lock' = [lock EXCEPT !.writer = "none"]
    /\ UNCHANGED <<batch_limit, props, buffer, clock, sent, nlog, nested, nflush, guards, history, snap>>

\* FlushDrain with a plausible bug: a batch is drained only when it is full
FlushDrainFullOnly(t) ==
    /\ Running(t, "flush", "drain")
    /\ LET batch_size == Clamp(Len(buffer), 0, BATCH_LIMIT) IN
         IF batch_size < BATCH_LIMIT
         THEN /\ stack' = Return(t)
              /\ ret' = [ret EXCEPT ![t] = "empty"]
              /\ UNCHANGED buffer
         ELSE /\ stack' = SetTop(t, [Top(t) EXCEPT
                              !.payload = SubSeq(buffer, 1, batch_size),
                              !.pc = "send"])
              /\ buffer' = SubSeq(buffer, batch_size + 1, Len(buffer))
              /\ UNCHANGED ret
    /\ lock' = [lock EXCEPT !.writer = "none"]
    /\ UNCHANGED <<batch_limit, props, clock, sent, nlog, nested, nflush, guards, history, snap>>

\* FlushDrain with a plausible bug: the write guard is not dropped before
\* the send (it lives to the end of flush(), which this step does not reach)
FlushDrainHolding(t) ==
    /\ Running(t, "flush", "drain")
    /\ LET batch_size == Clamp(Len(buffer), 0, BATCH_LIMIT) IN
         IF batch_size = 0
         THEN /\ stack' = Return(t)
              /\ ret' = [ret EXCEPT ![t] = "empty"]
              /\ lock' = [lock EXCEPT !.writer = "none"]
              /\ UNCHANGED buffer
         ELSE /\ stack' = SetTop(t, [Top(t) EXCEPT
                              !.payload = SubSeq(buffer, 1, batch_size),
                              !.pc = "send"])
              /\ buffer' = SubSeq(buffer, batch_size + 1, Len(buffer))
              /\ UNCHANGED <<ret, lock>>
    /\ UNCHANGED <<batch_limit, props, clock, sent, nlog, nested, nflush, guards, history, snap>>

\* sink.rs 130-141: the batch is drained from the front and the lock dropped
FlushDrain(t) ==
    /\ Running(t, "flush", "drain")
    /\ LET batch_size == Clamp(Len(buffer), 0, BATCH_LIMIT) IN
         IF batch_size = 0
         THEN /\ stack' = Return(t)
              /\ ret' = [ret EXCEPT ![t] = "empty"]
              /\ UNCHANGED buffer
         ELSE /\ stack' = SetTop(t, [Top(t) EXCEPT
                              !.payload = SubSeq(buffer, 1, batch_size),
                              !.pc = "send"])
              /\ buffer' = SubSeq(buffer, batch_size + 1, Len(buffer))
              /\ UNCHANGED ret
    /\ lock' = [lock EXCEPT !.writer = "none"]
    /\ UNCHANGED <<batch_limit, props, clock, sent, nlog, nested, nflush, guards, history, snap>>

\* FlushSend with a plausible bug: a failed batch is put back into the buffer
FlushSendRebuffer(t, ok) ==
    /\ Running(t, "flush", "send")
    /\ sent' = Append(sent, [streams |-> Top(t).payload, ok |-> ok])
    /\ ret' = [ret EXCEPT ![t] = IF ok THEN "sent" ELSE "failed"]
    /\ buffer' = IF ok THEN buffer ELSE Top(t).payload \o buffer
    /\ stack' = Return(t)
    /\ UNCHANGED <<batch_limit, props, lock, clock, nlog, nested, nflush, guards, history, snap>>

\* sink.rs 146-148: send_json returns; an error is printed and swallowed
FlushSend(t, ok) ==
    /\ Running(t, "flush", "send")
    /\ sent' = Append(sent, [streams |-> Top(t).payload, ok |-> ok])
    /\ ret' = [ret EXCEPT ![t] = IF ok THEN "sent" ELSE "failed"]
    /\ stack' = Return(t)
    /\ UNCHANGED <<batch_limit, props, buffer, lock, clock, nlog, nested, nflush, guards, history, snap>>

----------------------------------------------------------------------------
(* lib.rs: LokiSink::log and log_event_record.  The sink is constructed     *)
(* with Some(labels), as init is called in lib.rs 224.                     *)

\* struct LokiRequest of one record (lib.rs 147-152)
LokiRequest(f) == [streams |-> <<LokiStream(f)>>]

\* the panic of .unwrap() on a poisoned or self-held lock, unwinding the
\* whole stack of t: the guards of log_event_record drop, a write guard held
\* by a flush() frame of t is released and poisons the lock, the thread ends
HoldsGuards(f) == f.op = "log" /\ f.pc \in {"as_json", "write", "append", "drop"}

Unwind(t) ==
    /\ props' = IF \E k \in 1..Depth(t) : HoldsGuards(stack[t][k])
                THEN DropStd(props, Len(StdNames)) ELSE props
    /\ lock' = IF lock.writer = t
               THEN [lock EXCEPT !.writer = "none", !.poisoned = TRUE]
               ELSE [lock EXCEPT !.readers = @ \ {t}]
    /\ stack' = [stack EXCEPT ![t] = <<[FlushFrame EXCEPT !.op = "panicked", !.pc = "-"]>>]

\* lib.rs 165-175, 128-141: enabled() is true; a record whose target
\* contains "ureq" is dropped; otherwise message, time and the five
\* add_property!() pushes
LibLog(t, rec) ==
    /\ CanEnterLog(t, rec)
    /\ Count(t)
    /\ IF Contains(Chars(rec.target), Ureq)
       THEN UNCHANGED <<props, stack, clock>>
       ELSE /\ clock' = clock + 1
            /\ stack' = Call(stack, t, LogFrame(rec, ToDecimal(clock + 1)))
            /\ props' = PushStd(props, rec, 1)
    /\ UNCHANGED <<batch_limit, buffer, lock, sent, ret, nflush, guards, history, snap>>

\* lib.rs 143-152: the snapshot and the request built from it
LibAsJson(t) ==
    /\ Running(t, "log", "as_json")
    /\ stack' = SetTop(t, [Top(t) EXCEPT !.json = as_json(props), !.pc = "write"])
    /\ UNCHANGED <<batch_limit, props, buffer, lock, clock, sent, ret, nlog, nested, nflush, guards, history, snap>>

\* lib.rs 154: self.buffer.write().unwrap() is granted
LibWrite(t) ==
    /\ Running(t, "log", "write")
    /\ CanWrite
    /\ ~lock.poisoned
    /\ lock' = [lock EXCEPT !.writer = t]
    /\ stack' = SetTop(t, [Top(t) EXCEPT !.pc = "append"])
    /\ UNCHANGED <<batch_limit, props, buffer, clock, sent, ret, nlog, nested, nflush, guards, history, snap>>

\* lib.rs 154: write().unwrap() panics: the lock is poisoned, or it is held
\* by this very thread (a flush() frame below, inside send_json), where
\* RwLock::write either blocks for ever or panics
LibWritePanic(t) ==
    /\ Running(t, "log", "write")
    /\ lock.poisoned \/ lock.writer = t
    /\ Unwind(t)
    /\ UNCHANGED <<batch_limit, buffer, clock, sent, ret, nlog, nested, nflush, guards, history, snap>>

\* lib.rs 154: push(req), and the write guard dropped at the end of the statement
LibAppend(t) ==
    /\ Running(t, "log", "append")
    /\ buffer' = Append(buffer, LokiRequest(Top(t)))
    /\ lock' = [lock EXCEPT !.writer = "none"]
    /\ stack' = SetTop(t, [Top(t) EXCEPT !.pc = "drop"])
    /\ UNCHANGED <<batch_limit, props, clock, sent, ret, nlog, nested, nflush, guards, history, snap>>

\* lib.rs 156-157: log_event_record returns and its guards drop (lib.rs 80-84)
LibDrop(t) ==
    /\ Running(t, "log", "drop")
    /\ props' = DropStd(props, Len(StdNames))
    /\ stack' = SetTop(t, [Top(t) EXCEPT !.pc = "read"])
    /\ UNCHANGED <<batch_limit, buffer, lock, clock, sent, ret, nlog, nested, nflush, guards, history, snap>>

\* lib.rs 182: self.buffer.read().unwrap() is granted
LibRead(t) ==
    /\ Running(t, "log", "read")
    /\ CanRead
    /\ ~lock.poisoned
    /\ lock' = [lock EXCEPT !.readers = @ \cup {t}]
    /\ stack' = SetTop(t, [Top(t) EXCEPT !.pc = "len"])
    /\ UNCHANGED <<batch_limit, props, buffer, clock, sent, ret, nlog, nested, nflush, guards, history, snap>>

\* lib.rs 182: read().unwrap() panics on a poisoned lock
LibReadPanic(t) ==
    /\ Running(t, "log", "read")
    /\ lock.poisoned
    /\ Unwind(t)
    /\ UNCHANGED <<batch_limit, buffer, clock, sent, ret, nlog, nested, nflush, guards, history, snap>>

\* lib.rs 182-184: len() >= BUFFER_FLUSH_LIMIT, the read guard dropped, and
\* the call of flush()
LibLen(t) ==
    /\ Running(t, "log", "len")
    /\ lock' = [lock EXCEPT !.readers = @ \ {t}]
    /\ LET g == [Top(t) EXCEPT !.pc = "end"] IN
         IF Len(buffer) >= BUFFER_FLUSH_LIMIT
         THEN stack' = Call(SetTop(t, g), t, FlushFrame)
         ELSE stack' = SetTop(t, g)
    /\ UNCHANGED <<batch_limit, props, buffer, clock, sent, ret, nlog, nested, nflush, guards, history, snap>>

\* lib.rs 185: log() returns
LibLogReturn(t) ==
    /\ Running(t, "log", "end")
    /\ stack' = Return(t)
    /\ UNCHANGED <<batch_limit, props, buffer, lock, clock, sent, ret, nlog, nested, nflush, guards, history, snap>>

----------------------------------------------------------------------------
(* lib.rs: LokiSink::flush *)

\* flush() called from outside log()
LibFlush(t) ==
    /\ t = Timer
    /\ Depth(t) = 0
    /\ nflush < FlushBudget
    /\ nflush' = nflush + 1
    /\ stack' = Call(stack, t, FlushFrame)
    /\ UNCHANGED <<batch_limit, props, buffer, lock, clock, sent, ret, nlog, nested, guards, history, snap>>

\* lib.rs 188-192: try_write; on Err (held, or poisoned) the flush returns
LibFlushTryWrite(t) ==
    /\ Running(t, "flush", "try_write")
    /\ IF CanWrite /\ ~lock.poisoned
       THEN /\ lock' = [lock EXCEPT !.writer = t]
            /\ stack' = SetTop(t, [Top(t) EXCEPT !.pc = "drain"])
            /\ UNCHANGED ret
       ELSE /\ stack' = Return(t)
            /\ ret' = [ret EXCEPT ![t] = "WouldBlock"]
            /\ UNCHANGED lock
    /\ UNCHANGED <<batch_limit, props, buffer, clock, sent, nlog, nested, nflush, guards, history, snap>>

\* Iterator::flatten over the streams of the requests
RECURSIVE Flatten(_)
Flatten(reqs) ==
    IF reqs = <<>> THEN <<>> ELSE Head(reqs).streams \o Flatten(Tail(reqs))

\* lib.rs 194-196: the whole buffer is drained; the write guard stays live
LibFlushDrain(t) ==
    /\ Running(t, "flush", "drain")
    /\ stack' = SetTop(t, [Top(t) EXCEPT !.payload = Flatten(buffer), !.pc = "send"])
    /\ buffer' = <<>>
    /\ UNCHANGED <<batch_limit, props, lock, clock, sent, ret, nlog, nested, nflush, guards, history, snap>>

\* lib.rs 199-202: send_json returns; an error is printed and swallowed;
\* the write guard drops when flush() returns
LibFlushSend(t, ok) ==
    /\ Running(t, "flush", "send")
    /\ sent' = Append(sent, [streams |-> Top(t).payload, ok |-> ok])
    /\ ret' = [ret EXCEPT ![t] = IF ok THEN "sent" ELSE "failed"]
    /\ lock' = [lock EXCEPT !.writer = "none"]
    /\ stack' = Return(t)
    /\ UNCHANGED <<batch_limit, props, buffer, clock, nlog, nested, nflush, guards, history, snap>>

----------------------------------------------------------------------------
(* sink.rs as a whole *)

Init ==
    /\ batch_limit \in Limits
    /\ props = EmptyMap
    /\ buffer = <<>>
    /\ lock = Unlocked
    /\ stack = [t \in Threads |-> <<>>]
    /\ clock = 0
    /\ sent = <<>>
    /\ ret = [t \in Threads |-> "-"]
    /\ nlog = [t \in Threads |-> 0]
    /\ nested = 0
    /\ nflush = 0
    /\ guards = <<>>
    /\ history = NoHistory
    /\ snap = NoSnap

Next ==
    \E t \in Threads :
        \/ \E rec \in Records : Log(t, rec)
        \/ LogAsJson(t)
        \/ LogWrite(t)
        \/ LogAppend(t)
        \/ LogRead(t)
        \/ LogLen(t)
        \/ LogDrop(t)
        \/ Flush(t)
        \/ FlushTryWrite(t)
        \/ FlushDrain(t)
        \/ \E ok \in BOOLEAN : FlushSend(t, ok)

Spec == Init /\ [][Next]_vars

----------------------------------------------------------------------------
(* lib.rs as a whole *)

NextLib ==
    \E t \in Threads :
        \/ \E rec \in Records : LibLog(t, rec)
        \/ LibAsJson(t)
        \/ LibWrite(t)
        \/ LibWritePanic(t)
        \/ LibAppend(t)
        \/ LibDrop(t)
        \/ LibRead(t)
        \/ LibReadPanic(t)
        \/ LibLen(t)
        \/ LibLogReturn(t)
        \/ LibFlush(t)
        \/ LibFlushTryWrite(t)
        \/ LibFlushDrain(t)
        \/ \E ok \in BOOLEAN : LibFlushSend(t, ok)

SpecLib == Init /\ [][NextLib]_vars

----------------------------------------------------------------------------
(* sink.rs with a periodic driver of flush() and fair scheduling *)

\* the periodic driver calls flush(), once per interval, without end; the
\* count of its calls is kept up to MaxFlushCalls
Tick(t) ==
    /\ t = Timer
    /\ Depth(t) = 0
    /\ nflush' = IF nflush < MaxFlushCalls THEN nflush + 1 ELSE nflush
    /\ stack' = Call(stack, t, FlushFrame)
    /\ UNCHANGED <<batch_limit, props, buffer, lock, clock, sent, ret, nlog, nested, guards, history, snap>>

\* the steps of the call that thread t is running
Steps(t) ==
    \/ LogAsJson(t)
    \/ LogWrite(t)
    \/ LogAppend(t)
    \/ LogRead(t)
    \/ LogLen(t)
    \/ LogDrop(t)
    \/ FlushTryWrite(t)
    \/ FlushDrain(t)
    \/ \E ok \in BOOLEAN : FlushSend(t, ok)

\* the workload: one producer and the driver, with a limit of two or more,
\* so that entries wait below the limit; the transport logs during sends
LiveLimit == ScaledLimit + 1
LiveProducers == {"p1"}

InitLive ==
    /\ batch_limit = LiveLimit
    /\ props = EmptyMap
    /\ buffer = <<>>
    /\ lock = Unlocked
    /\ stack = [t \in Threads |-> <<>>]
    /\ clock = 0
    /\ sent = <<>>
    /\ ret = [t \in Threads |-> "-"]
    /\ nlog = [t \in Threads |-> 0]
    /\ nested = 0
    /\ nflush = 0
    /\ guards = <<>>
    /\ history = NoHistory
    /\ snap = NoSnap

NextLive ==
    \E t \in Threads :
        \/ \E rec \in Records : (Depth(t) = 0 => t \in LiveProducers) /\ Log(t, rec)
        \/ Tick(t)
        \/ Steps(t)

\* every thread that is inside a call is scheduled, send_json returns, and
\* the driver keeps calling; the calls of log() are not forced
SpecLive ==
    /\ InitLive
    /\ [][NextLive]_vars
    /\ \A t \in Threads : WF_vars(Steps(t))
    /\ WF_vars(Tick(Timer))

----------------------------------------------------------------------------
(* sink.rs called by one thread that also uses the property bag: pushes,   *)
(* guard drops and snapshots happen between its calls of log()             *)

\* what the caller pushes: a name of its own and one that log() pushes too
CallerNames == {"User", "level"}
CallerObjects == {[str |-> "abc"], [u32 |-> 30]}

CallerPush(name, object) == Quiescent /\ push(name, object)
CallerDrop(g) == Quiescent /\ drop(g)
CallerSnapshot == Quiescent /\ Snapshot

NextCaller ==
    \/ \E name \in CallerNames, object \in CallerObjects : CallerPush(name, object)
    \/ \E g \in 1..MaxPushes : CallerDrop(g)
    \/ CallerSnapshot
    \/ \E t \in Threads :
          \/ \E rec \in Records : (Depth(t) = 0 => t \in LiveProducers) /\ Log(t, rec)
          \/ Steps(t)

SpecCaller == InitLive /\ [][NextCaller]_vars

----------------------------------------------------------------------------
(* The property bag under the application's pushes, drops and snapshots *)

NextBag ==
    \/ \E name \in BagNames, object \in BagObjects : push(name, object)
    \/ \E g \in 1..MaxPushes : drop(g)
    \/ Snapshot

SpecBag == Init /\ [][NextBag]_vars

----------------------------------------------------------------------------
(* Properties *)

Range(q) == {q[i] : i \in 1..Len(q)}

\* the frames of all stacks, as <<thread, position>>
Frames == UNION {{<<t, k>> : k \in 1..Depth(t)} : t \in Threads}
Frame(x) == stack[x[1]][x[2]]

\* the step is taken by thread t
Step(t) == stack'[t] # stack[t]

\* the streams a buffer holds, oldest first: sink.rs buffers LokiStream,
\* lib.rs buffers LokiRequest
Streams(buf) == IF buf # <<>> /\ "streams" \in DOMAIN buf[1] THEN Flatten(buf) ELSE buf

\* the five standard properties of a record, as members of a JSON object
\* (written out from the field of the record each one carries)
Quoted(str) == <<"\"", str, "\"">>
OwnProperties(rec) ==
    {<<"Message", Quoted(rec.args)>>,
     <<"LineNumber", IF rec = RecApp THEN <<"1", "0">>
                     ELSE IF rec = RecUreq THEN <<"2", "7">> ELSE <<"null">> >>,
     <<"Target", Quoted(rec.target)>>,
     <<"File", IF rec = RecApp THEN Quoted("main.rs") ELSE <<"null">> >>,
     <<"level", Quoted(IF rec = RecApp THEN "info"
                       ELSE IF rec = RecUreq THEN "debug" ELSE "trace")>>}

\* C1: no flush() is inside its HTTP send while it holds the buffer's lock:
\* whenever the thread of a sending flush() is the lock's writer, the lock
\* was taken after the send began, by the frame on top of that thread's
\* stack (a log() re-entered from the transport that is appending, or a
\* flush() it called that is draining)
C1_SendWithoutLock ==
    \A x \in Frames :
        Frame(x).op = "flush" /\ Frame(x).pc = "send" /\ lock.writer = x[1] =>
            /\ Depth(x[1]) > x[2]
            /\ Top(x[1]).pc \in {"append", "drain"}

\* C2: a record whose target contains "ureq" is dropped before enrichment:
\* no log() call for it gets past the filter (so it pushes no property and
\* triggers no flush) and no buffered or sent entry was made from it
FromUreq(e) == Contains(Chars(e.rec.target), Ureq)
C2_UreqRecordsDropped ==
    /\ \A x \in Frames : Frame(x).op = "log" => ~FromUreq(Frame(x))
    /\ \A e \in Range(Streams(buffer)) : ~FromUreq(e)
    /\ \A i \in 1..Len(sent) : \A e \in Range(sent[i].streams) : ~FromUreq(e)

\* C3: with one producer and no other flush trigger, no send happens before
\* the batch-limit-th log() call, and when that call has returned exactly one
\* send has been made, of exactly batch-limit entries, and the buffer is empty
Solo(p) == nflush = 0 /\ nested = 0 /\ \A q \in Threads \ {p} : nlog[q] = 0
C3_LimitCallsOneFlush ==
    \A p \in Producers :
        Solo(p) =>
            /\ nlog[p] < BATCH_LIMIT =>
                   sent = <<>> /\ \A x \in Frames : Frame(x).op # "flush"
            /\ nlog[p] = BATCH_LIMIT => Len(sent) <= 1
            /\ nlog[p] = BATCH_LIMIT /\ Depth(p) = 0 =>
                   /\ Len(sent) = 1
                   /\ Len(sent[1].streams) = BATCH_LIMIT
                   /\ buffer = <<>>
                   /\ ret[p] \in {"sent", "failed"}

C3_Witness ==
    /\ BATCH_LIMIT = ScaledLimit + 2
    /\ Solo("p1") /\ nlog["p1"] = BATCH_LIMIT /\ Depth("p1") = 0
    /\ Len(sent) = 1

\* C4: with no flush() from outside log(), after N < batch limit log() calls
\* have returned the buffer holds exactly N entries and nothing was sent
C4_BelowLimitAllBuffered ==
    nflush = 0 /\ Calls < BATCH_LIMIT =>
        /\ sent = <<>>
        /\ \A x \in Frames : Frame(x).op # "flush"
        /\ Quiescent => Len(buffer) = Calls

C4_Witness ==
    /\ nflush = 0 /\ Quiescent
    /\ nlog["p1"] = 1 /\ nlog["p2"] = 1 /\ Calls = 2 /\ Calls < BATCH_LIMIT
    /\ Len(buffer) = 2

\* C5: a flush() at its try_write that finds the lock held can always take
\* its step (it does not wait), and that step returns from flush() leaving
\* buffer, lock and sends as they were
Contended(t) == Running(t, "flush", "try_write") /\ ~CanWrite
C5_ContendedFlushReturns ==
    /\ [](\A t \in Threads : Contended(t) => ENABLED FlushTryWrite(t))
    /\ [][\A t \in Threads :
            Contended(t) /\ Step(t) =>
                /\ stack'[t] = SubSeq(stack[t], 1, Depth(t) - 1)
                /\ buffer' = buffer
                /\ sent' = sent
                /\ lock' = lock]_vars

C5_Witness ==
    /\ ret[Timer] = "WouldBlock"
    /\ Depth(Timer) = 0
    /\ buffer # <<>>
    /\ sent = <<>>

\* C6: the entries of a batch whose send failed are neither in the buffer
\* nor in any later payload, sent or about to be sent
C6_FailedBatchDiscarded ==
    \A i \in 1..Len(sent) :
        ~sent[i].ok =>
            \A e \in Range(sent[i].streams) :
                /\ e \notin Range(buffer)
                /\ \A j \in (i + 1)..Len(sent) : e \notin Range(sent[j].streams)
                /\ \A x \in Frames : e \notin Range(Frame(x).payload)

C6_Witness ==
    /\ Len(sent) = 2
    /\ ~sent[1].ok /\ sent[1].streams # <<>>
    /\ sent[2].streams # <<>>

\* C7: the drain step of a flush() on a buffer of n entries takes the first
\* min(n, batch limit) of them, in order, as its payload and leaves the
\* rest, in order, in the buffer
C7_DrainsFrontUpToLimit ==
    [][\A t \in Threads :
          Running(t, "flush", "drain") /\ Step(t) =>
              LET n == Len(buffer)
                  k == Min(n, BATCH_LIMIT)
              IN  /\ buffer' = SubSeq(buffer, k + 1, n)
                  /\ k > 0 => /\ Depth(t)' = Depth(t)
                              /\ Top(t)'.payload = Streams(SubSeq(buffer, 1, k))]_vars

\* C8 as stated: two flush() invocations are never both between their lock
\* acquire and their return (drain and network send included)
OnFlushPath == {x \in Frames : Frame(x).op = "flush" /\ Frame(x).pc \in {"drain", "send"}}
C8_OneFlushPath == Cardinality(OnFlushPath) <= 1

\* C8 as amended: two flush() invocations are never both between their lock
\* acquire and their release of the lock (the drain); the one that is there
\* holds the write lock, and no thread is appending or reading the length
Draining == {x \in Frames : Frame(x).op = "flush" /\ Frame(x).pc = "drain"}
C8_OneDrainAtATime ==
    /\ Cardinality(Draining) <= 1
    /\ \A x \in Draining :
          /\ lock.writer = x[1] /\ lock.readers = {}
          /\ \A y \in Frames : Frame(y).op = "log" => Frame(y).pc \notin {"append", "len"}

C8_Witness ==
    /\ Cardinality(Draining) = 1
    /\ \E x \in OnFlushPath : Frame(x).pc = "send"

\* C9: every LogLine appended by a log() call holds the five standard
\* properties with the values of that call's record
C9_OwnStandardProperties ==
    \A e \in Range(buffer) : OwnProperties(e.rec) \subseteq e.values[2]

\* C10: a snapshot taken after pushes under pairwise distinct names, with no
\* guard dropped, holds exactly those names, each with the JSON text of the
\* object pushed for it
ExpectedJson(object) ==
    CASE object = [str |-> "abc"] -> <<"\"", "abc", "\"">>
      [] object = [u32 |-> 30]    -> <<"3", "0">>
      [] OTHER                    -> <<"null">>
DistinctNames(pushes) ==
    \A i, j \in 1..Len(pushes) : i # j => pushes[i].name # pushes[j].name
C10_SnapshotOfDistinctPushes ==
    snap.taken /\ snap.after.drops = 0 /\ DistinctNames(snap.after.pushes) =>
        snap.json = {<<q.name, ExpectedJson(q.object)>> : q \in Range(snap.after.pushes)}

C10_Witness ==
    /\ snap.taken /\ snap.after.drops = 0 /\ DistinctNames(snap.after.pushes)
    /\ Len(snap.after.pushes) = 3
    /\ \E i \in 1..3 : snap.after.pushes[i].object = [u32 |-> 30]
    /\ Len(guards) = 3

\* the guard at position g of the application is dropped in this step
Dropped(g) ==
    /\ g \in 1..Len(guards)
    /\ history'.drops = history.drops + 1
    /\ guards' = SubSeq(guards, 1, g - 1) \o SubSeq(guards, g + 1, Len(guards))

\* the names of the live guards of the application
LiveNames == {guards[g].key : g \in 1..Len(guards)}

\* C11: the drop of a guard removes the entry of the guard's name and
\* nothing else, whether or not another guard for that name is live: after
\* the drop the name is absent, every other entry is as it was, and a drop
\* for a name that is already absent leaves the store unchanged
C11_DropRemovesUnconditionally ==
    [][\A g \in 1..MaxPushes :
          Dropped(g) =>
              LET k == guards[g].key IN
                /\ k \notin DOMAIN props'
                /\ DOMAIN props' = (DOMAIN props) \ {k}
                /\ \A j \in DOMAIN props' : props'[j] = props[j]
                /\ k \notin DOMAIN props => props' = props]_vars

\* one name pushed twice, one of the two guards dropped: the name is absent
\* from the store while the other guard is live
C11_Witness ==
    /\ Len(history.pushes) = 2
    /\ history.pushes[1].name = history.pushes[2].name
    /\ history.drops = 1
    /\ Len(guards) = 1
    /\ guards[1].key = history.pushes[1].name
    /\ guards[1].key \notin DOMAIN props

\* the flush() frames that hold a drained batch not yet handed to send_json's result
Sending == {x \in Frames : Frame(x).op = "flush" /\ Frame(x).pc = "send"}

\* every place an entry can be: the buffer, the payload of a flush() inside
\* its send, the payload of a completed send
Places ==
    {<<"buffer", 0, 0>>} \cup {<<"payload", x[1], x[2]>> : x \in Sending}
                         \cup {<<"sent", 0, i>> : i \in 1..Len(sent)}
At(pl) ==
    IF pl[1] = "buffer" THEN buffer
    ELSE IF pl[1] = "payload" THEN stack[pl[2]][pl[3]].payload
    ELSE sent[pl[3]].streams

NoDup(q) == \A i, j \in 1..Len(q) : i # j => q[i] # q[j]

\* the entries drained so far
Drained == UNION {Range(At(pl)) : pl \in Places \ {<<"buffer", 0, 0>>}}

\* C12: every entry is in one place at a time and in one payload at most
\* (no place holds it twice, no two places hold it); an entry in the buffer
\* stays there or moves into a payload; a drained entry stays drained and
\* never is in the buffer again, whatever the result of the send
C12_DrainedExactlyOnce ==
    /\ [](/\ \A pl \in Places : NoDup(At(pl))
          /\ \A pl, pm \in Places : pl # pm => Range(At(pl)) \cap Range(At(pm)) = {})
    /\ [][/\ \A e \in Range(buffer) : e \in Range(buffer') \cup Drained'
          /\ \A e \in Drained : e \in Drained' /\ e \notin Range(buffer')]_vars

\* two flushes have drained: the batch of one was sent and failed, the other
\* is inside its send with an entry appended later
C12_Witness ==
    /\ Len(sent) = 1 /\ ~sent[1].ok /\ sent[1].streams # <<>>
    /\ \E x \in Sending : Frame(x).payload # <<>>
    /\ buffer = <<>>

\* the timestamps of the entries of a run
Stamps == 1..(LiveLimit + 1)
Stamped(e, n) == e.values[1] = ToDecimal(n)

Appended == Range(buffer) \cup Drained

\* C14: a buffered line is a copy: in every step, every entry appended so
\* far is found unchanged (same timestamp, same line, same labels) in the
\* next state, in the buffer or in a payload, while the store changes under
\* the pushes and guard drops of the log() calls of all threads; and the
\* entry a log() call appends holds the snapshot that call took
C14_BufferedLineIsACopy ==
    [][/\ \A e \in Appended : e \in Appended'
       /\ \A e \in Appended' :
             \/ e \in Appended
             \/ \E t \in Threads :
                   /\ Running(t, "log", "append")
                   /\ e.values = <<Top(t).time, Top(t).json>>
                   /\ \A d \in Appended : d.values[1] # e.values[1]]_vars

\* a buffered entry and a sent one hold lines that differ from the store's
\* present content
C14_Witness ==
    /\ \E e \in Range(buffer) : e.values[2] # {} /\ e.values[2] # as_json(props)
    /\ \E e \in Drained : e.values[2] # {} /\ e.values[2] # as_json(props)

\* push is called in this step
PushCalled ==
    Len(history'.pushes) + history'.panics = Len(history.pushes) + history.panics + 1

\* C15: a push of a value that has no JSON representation returns a
\* serialization error to its caller (it does not panic and gives no
\* guard), and leaves the store as it was
C15_PushFailsWithErrorValue ==
    [][PushCalled /\ ~ToValue(history'.last.object).ok =>
          /\ history'.last.result = "error"
          /\ history'.panics = history.panics
          /\ guards' = guards
          /\ props' = props]_vars

\* C16: a flush() that finds the buffer empty makes no send: no flush() is
\* inside send_json with an empty payload and no completed send carried an
\* empty payload
C16_NoEmptySend ==
    /\ \A x \in Sending : Frame(x).payload # <<>>
    /\ \A i \in 1..Len(sent) : sent[i].streams # <<>>

\* no log() call is in progress on any thread
NoLogRunning == \A x \in Frames : Frame(x).op # "log"

\* C17: when no log() call is in progress the store holds none of the five
\* standard properties
C17_GuardsOnlyDuringLog ==
    NoLogRunning => \A i \in 1..Len(StdNames) : StdNames[i] \notin DOMAIN props

\* both producers have made calls of log(), all have returned, and entries
\* made by them are buffered
C17_Witness ==
    /\ NoLogRunning
    /\ nlog["p1"] > 0 /\ nlog["p2"] > 0
    /\ Len(buffer) >= 2
    /\ \A e \in Range(buffer) : e.values[2] # {}

\* thread t holds the buffer's lock, for writing or for reading
BufferHeld(t) == lock.writer = t \/ t \in lock.readers

\* C18: the store's lock is taken and released inside one statement (each
\* is one step here), so the two locks are nested only if a step that
\* uses the store is taken while the buffer's lock is held.  A thread holds
\* the buffer's lock only while its running frame is appending, reading the
\* length or draining; its steps from there do not touch the store; and
\* whenever a call is in progress, some call in progress can take a step
C18_DeadlockFree ==
    /\ [](\A t \in Threads :
             BufferHeld(t) =>
                 /\ Depth(t) > 0
                 /\ Top(t).pc \in {"append", "len", "drain"}
                 /\ ENABLED Steps(t))
    /\ []((\E t \in Threads : Depth(t) > 0) => ENABLED (\E t \in Threads : Steps(t)))
    /\ [][\A t \in Threads : BufferHeld(t) /\ Step(t) => props' = props]_vars

\* a log() re-entered on the flushing thread during the send holds the
\* buffer's lock to append, while a log() on another thread waits for it
C18_Witness ==
    \E t, u \in Threads :
        /\ t # u
        /\ Depth(t) >= 3
        /\ Running(t, "log", "append") /\ lock.writer = t
        /\ \E k \in 1..(Depth(t) - 1) : stack[t][k].op = "flush" /\ stack[t][k].pc = "send"
        /\ Running(u, "log", "write") \/ Running(u, "log", "read")

\* C19: in every quiescent state (no log() or flush() call in progress) the
\* buffer holds fewer entries than the batch limit
C19_QuiescentBelowLimit ==
    Quiescent => Len(buffer) < BATCH_LIMIT

\* C20: a log() call with no concurrent activity leaves the store as it
\* was: when the caller took a snapshot, has pushed and dropped nothing
\* since, and no call is in progress, the store's content is that of the
\* snapshot, whatever log() calls were made in between
C20_LogLeavesStoreUnchanged ==
    snap.taken /\ snap.after = history /\ Quiescent => as_json(props) = snap.json

====
